---- MODULE Spec2Model ----
(***************************************************************************)
(* forcedTranscribe: the two algorithmic pieces of the repository.         *)
(*                                                                         *)
(*   lib/whisper_transcribers.py  adjust_pauses_for_hf_pipeline_output     *)
(*   lib/textgrid_handler.py      textgrid_from_transcription              *)
(*                                                                         *)
(* The pause redistribution computes with Python floats, modelled with    *)
(* their rounding.  The TextGrid builder only compares timestamps and adds *)
(* the 0.001 s offset; there time is counted in ticks of 0.5 ms, so that   *)
(* the offset is two ticks and spans shorter than the offset exist.        *)
(***************************************************************************)
EXTENDS Integers, Sequences, FiniteSets, TLC

VARIABLES
    \* ---- adjust_pauses_for_hf_pipeline_output ----
    heap,              \* the chunk dicts: reference -> [timestamp, text]
    chunks,            \* the caller's list object pipeline_output["chunks"]
    adjusted_chunks,   \* the local list made by .copy()
    output_chunks,     \* which list object pipeline_output["chunks"] names
    split_threshold,
    ci,                \* the loop index i of the pair loop
    apc,               \* position in the function
    pass,              \* 1: first application, 2: applied to its own result
    orig,              \* the heap as it was when the caller made the call
    result1,           \* the heap when the first application returned
    \* ---- textgrid_from_transcription ----
    transcription,
    duration,
    req,               \* the arguments segment_level / word_level as passed
    segment_level,
    word_level,
    tier_names,
    tg,                \* the TextGrid: sequence of tiers, or NoTextGrid
    word_ntier,
    i,
    j,
    same_boundary_seg,
    same_boundary_word,
    text,
    interval_num,
    ii,
    jj,
    pc,
    err,
    last               \* what the last loop iteration did (branch, boundary, label)

avars == <<heap, chunks, adjusted_chunks, output_chunks, split_threshold, ci,
           apc, pass, orig, result1>>

tvars == <<transcription, duration, req, segment_level, word_level, tier_names,
           tg, word_ntier, i, j, same_boundary_seg, same_boundary_word, text,
           interval_num, ii, jj, pc, err, last>>

vars == <<avars, tvars>>

Min(a, b) == IF a < b THEN a ELSE b

(***************************************************************************)
(* Python floats.  A float is counted in quanta (a fixed power of two of a *)
(* second).  Sums and differences are rounded to the nearest float, ties   *)
(* to the even significand; a significand has Precision bits (53 in        *)
(* CPython, a bound here).  Halving a float is exact: the timestamps and   *)
(* thresholds handed in are multiples of four quanta, so that no half      *)
(* falls below the quantum.                                                *)
(***************************************************************************)
Precision == 2

Abs(x) == IF x < 0 THEN 0 - x ELSE x

RECURSIVE Pow2(_)
Pow2(n) == IF n = 0 THEN 1 ELSE 2 * Pow2(n - 1)

\* the number of bits of a >= 0
RECURSIVE BitLength(_)
BitLength(a) == IF a = 0 THEN 0 ELSE 1 + BitLength(a \div 2)

\* the distance between neighbouring floats at magnitude a
Ulp(a) == IF a < Pow2(Precision) THEN 1 ELSE Pow2(BitLength(a) - Precision)

\* the float nearest to the real x, ties to even
Round(x) ==
    LET a == Abs(x)
        u == Ulp(a)
        q == a \div u
        r == a % u
        m == IF 2 * r > u \/ (2 * r = u /\ q % 2 = 1) THEN (q + 1) * u ELSE q * u
    IN  IF x < 0 THEN 0 - m ELSE m

\* a + b, a - b and a / 2 on floats
FloatAdd(a, b) == Round(a + b)
FloatSub(a, b) == Round(a - b)
FloatHalf(a) == a \div 2

(***************************************************************************)
(* Bounds                                                                  *)
(***************************************************************************)
MaxChunks == 3
MaxTick == 6
MaxThreshold == 3

\* the floats among the multiples of four quanta
ChunkTimes == {x \in {4 * n : n \in 0..MaxTick} : Round(x) = x}
Thresholds == {x \in {8 * n : n \in 1..MaxThreshold} : Round(x) = x}

ChunkLabels == <<"w1", "w2", "w3", "w4", "w5">>

(***************************************************************************)
(* adjust_pauses_for_hf_pipeline_output                                    *)
(***************************************************************************)

\* a chunk dict {"text": ..., "timestamp": (start, end)}
Chunk(s, e, label) == [timestamp |-> <<s, e>>, text |-> label]

Timestamps == {<<s, e>> \in ChunkTimes \X ChunkTimes : s <= e}

\* the chunks of a recognition come in time order; neighbours may overlap
InOrder(ts) ==
    \A r \in 1..(Len(ts) - 1) : ts[r][1] <= ts[r + 1][1] /\ ts[r][2] <= ts[r + 1][2]

\* a heap the caller can hand in: n chunk dicts, chunk r labelled ChunkLabels[r]
InputHeap(n, ts) == [r \in 1..n |-> Chunk(ts[r][1], ts[r][2], ChunkLabels[r])]

\* the list of references [chunk 1, ..., chunk n]
RefList(n) == [r \in 1..n |-> r]

DistributeNoCeiling(pause_duration, threshold) == FloatHalf(pause_duration)

\* lines 67-70
Distribute(pause_duration, threshold) ==
    IF pause_duration > threshold
    THEN FloatHalf(threshold)
    ELSE FloatHalf(pause_duration)

NextTimestampKept(next_start, next_end, distribute) == <<next_start, next_end>>

\* line 76: the tuple stored as the next chunk's timestamp
NextTimestamp(next_start, next_end, distribute) ==
    <<FloatSub(next_start, distribute), next_end>>

\* line 73: the tuple stored as the current chunk's timestamp
CurrentTimestamp(current_start, current_end, distribute) ==
    <<current_start, FloatAdd(current_end, distribute)>>

AdjustIdle ==
    /\ heap = <<>> /\ chunks = <<>> /\ adjusted_chunks = <<>>
    /\ output_chunks = "chunks" /\ split_threshold = 0 /\ ci = 0
    /\ apc = "idle" /\ pass = 0 /\ orig = <<>> /\ result1 = <<>>

AdjustInit ==
    /\ \E n \in 0..MaxChunks :
         \E ts \in [1..n -> Timestamps] : InOrder(ts) /\ heap = InputHeap(n, ts)
    /\ chunks = RefList(Len(heap))
    /\ adjusted_chunks = <<>>
    /\ output_chunks = "chunks"
    /\ split_threshold \in Thresholds
    /\ ci = 0
    /\ apc = "call"
    /\ pass = 1
    /\ orig = heap
    /\ result1 = <<>>

\* the list object pipeline_output["chunks"] names at the moment
OutputList == IF output_chunks = "chunks" THEN chunks ELSE adjusted_chunks

\* line 56: adjusted_chunks = pipeline_output["chunks"].copy()
\* a new list holding the same references
AdjustCall ==
    /\ apc = "call"
    /\ adjusted_chunks' = OutputList
    /\ ci' = 0
    /\ apc' = "loop"
    /\ UNCHANGED <<heap, chunks, output_chunks, split_threshold, pass, orig, result1>>
    /\ UNCHANGED tvars

\* lines 58-76: one iteration of the pair loop
AdjustPair ==
    /\ apc = "loop"
    /\ ci < Len(adjusted_chunks) - 1
    /\ LET cur == adjusted_chunks[ci + 1]
           nxt == adjusted_chunks[ci + 2]
           current_start == heap[cur].timestamp[1]
           current_end == heap[cur].timestamp[2]
           next_start == heap[nxt].timestamp[1]
           next_end == heap[nxt].timestamp[2]
           pause_duration == FloatSub(next_start, current_end)
           distribute == Distribute(pause_duration, split_threshold)
       IN  heap' =
             IF pause_duration > 0
             THEN LET h1 == [heap EXCEPT ![cur].timestamp =
                               CurrentTimestamp(current_start, current_end, distribute)]
                  IN  [h1 EXCEPT ![nxt].timestamp =
                               NextTimestamp(next_start, next_end, distribute)]
             ELSE heap
    /\ ci' = ci + 1
    /\ UNCHANGED <<chunks, adjusted_chunks, output_chunks, split_threshold, apc,
                   pass, orig, result1>>
    /\ UNCHANGED tvars

\* lines 77-79: pipeline_output["chunks"] = adjusted_chunks; return pipeline_output
AdjustReturn ==
    /\ apc = "loop"
    /\ ci >= Len(adjusted_chunks) - 1
    /\ output_chunks' = "adjusted_chunks"
    /\ apc' = "done"
    /\ UNCHANGED <<heap, chunks, adjusted_chunks, split_threshold, ci, pass, orig,
                   result1>>
    /\ UNCHANGED tvars

\* the caller applies the function to the value it returned, same threshold
Reapply ==
    /\ apc = "done"
    /\ pass = 1
    /\ result1' = heap
    /\ pass' = 2
    /\ apc' = "call"
    /\ UNCHANGED <<heap, chunks, adjusted_chunks, output_chunks, split_threshold,
                   ci, orig>>
    /\ UNCHANGED tvars


(***************************************************************************)
(* textgrid_from_transcription: inputs                                     *)
(***************************************************************************)
MaxSegments == 2

\* words in the whole transcription
MaxWords == 2

\* 0.001 s, in ticks of 0.5 ms
Eps == 2

\* the shortest audio in which the boundary of line 114 fits after time 0
AudioLength == Eps + 1

\* timestamps reach one tick past the end of the audio
MaxTime == AudioLength + 1

\* an audio of no length, and one that the largest timestamps exceed
Durations == {0, AudioLength}

Unbound == "<unbound>"
NoError == "none"

SegmentLabels == <<"s1", "s2", "s3", "s4">>
WordLabels == <<<<"a1", "a2", "a3", "a4">>, <<"b1", "b2", "b3", "b4">>,
                <<"c1", "c2", "c3", "c4">>, <<"d1", "d2", "d3", "d4">>>>

\* the nondecreasing sequences of m times within lo..hi
RECURSIVE Nondecreasing(_, _, _)
Nondecreasing(lo, hi, m) ==
    IF m = 0
    THEN {<<>>}
    ELSE UNION {{<<x>> \o rest : rest \in Nondecreasing(x, hi, m - 1)} : x \in lo..hi}

\* ordered timestamps of n spans within lo..hi: start <= end <= next start
OrderedTimes(lo, hi, n) == Nondecreasing(lo, hi, 2 * n)

\* the lists of k words of segment number s, nested in lo..hi
WordLists(s, lo, hi, k) ==
    {[x \in 1..k |-> [start |-> f[2 * x - 1], end |-> f[2 * x],
                      word |-> WordLabels[s][x]]] : f \in OrderedTimes(lo, hi, k)}

\* a segment dict without a "words" list
SegmentDict(s, t0, t1) ==
    [start |-> t0, end |-> t1, text |-> SegmentLabels[s], keys |-> {},
     words |-> <<>>]

\* the segment dicts with a "words" list of k words
SegmentDictsWithWords(s, t0, t1, k) ==
    {[start |-> t0, end |-> t1, text |-> SegmentLabels[s], keys |-> {"words"},
      words |-> wl] : wl \in WordLists(s, t0, t1, k)}

\* all lists of n segment dicts with the ordered timestamps f and at most w
\* words in all; the dicts carry "words" only when the word level is asked
\* for, the only case in which the code reads them
RECURSIVE SegmentsWithTimes(_, _, _, _)
SegmentsWithTimes(n, f, w, with_words) ==
    IF n = 0
    THEN {<<>>}
    ELSE {Append(sq, SegmentDict(n, f[2 * n - 1], f[2 * n])) :
              sq \in SegmentsWithTimes(n - 1, f, w, with_words)}
         \cup (IF with_words
               THEN UNION {{Append(sq, sd) :
                               sq \in SegmentsWithTimes(n - 1, f, w - k, with_words),
                               sd \in SegmentDictsWithWords(n, f[2 * n - 1], f[2 * n], k)} :
                           k \in 0..w}
               ELSE {})

\* the transcription arguments around a segment list: a dict with some of
\* the keys "text" and "segments", or a value that is not a dict
Transcriptions(sl) ==
    {[isdict |-> TRUE, keys |-> {"text", "segments"}, text |-> "full",
      segments |-> sl]}
    \cup (IF Len(sl) <= 1
          THEN {[isdict |-> TRUE, keys |-> {"segments"}, text |-> "", segments |-> sl]}
          ELSE {})
    \cup (IF Len(sl) = 0
          THEN {[isdict |-> FALSE, keys |-> {}, text |-> "", segments |-> <<>>],
                [isdict |-> TRUE, keys |-> {}, text |-> "", segments |-> <<>>],
                [isdict |-> TRUE, keys |-> {"text"}, text |-> "full",
                 segments |-> <<>>]}
          ELSE {})

(***************************************************************************)
(* The Praat TextGrid the function builds (parselmouth).  A tier is a      *)
(* sequence of intervals [xmin, xmax, text].                               *)
(***************************************************************************)
NoTextGrid == <<>>

NewTextGridLongEnd(end_time, names) ==
    [n \in 1..Len(names) |-> <<[xmin |-> 0, xmax |-> end_time + 1, text |-> ""]>>]

\* lines 61-65: one tier per name, each a single empty interval [0, end_time]
NewTextGrid(end_time, names) ==
    [n \in 1..Len(names) |-> <<[xmin |-> 0, xmax |-> end_time, text |-> ""]>>]

\* the interval of the tier that holds time t (xmin <= t < xmax), 0 if none
IntervalAt(tier, t) ==
    IF \E n \in 1..Len(tier) : tier[n].xmin <= t /\ t < tier[n].xmax
    THEN CHOOSE n \in 1..Len(tier) : tier[n].xmin <= t /\ t < tier[n].xmax
    ELSE 0

\* "Insert boundary" is refused at an existing boundary and outside the tier
CanInsertBoundary(tier, t) ==
    /\ \A n \in 1..Len(tier) : tier[n].xmin # t /\ tier[n].xmax # t
    /\ IntervalAt(tier, t) # 0

\* "Insert boundary": the interval holding t is split at t, its text stays
\* on the left part and the right part is empty
InsertBoundary(tier, t) ==
    LET n == IntervalAt(tier, t)
    IN  SubSeq(tier, 1, n - 1)
        \o <<[xmin |-> tier[n].xmin, xmax |-> t, text |-> tier[n].text],
             [xmin |-> t, xmax |-> tier[n].xmax, text |-> ""]>>
        \o SubSeq(tier, n + 1, Len(tier))

\* "Set interval text" is refused for an interval number the tier lacks
CanSetIntervalText(tier, n) == n >= 1 /\ n <= Len(tier)

SetIntervalText(tier, n, label) == [tier EXCEPT ![n].text = label]

\* " ".join(labels)
RECURSIVE JoinSpace(_)
JoinSpace(labels) ==
    IF Len(labels) = 0 THEN ""
    ELSE IF Len(labels) = 1 THEN labels[1]
    ELSE labels[1] \o " " \o JoinSpace(Tail(labels))

\* range(lo, hi) as a sequence of Python indices
PyRange(lo, hi) == [x \in 1..(IF hi > lo THEN hi - lo ELSE 0) |-> lo + x - 1]

\* list[x] with Python's negative indices; position in the 1-based sequence
PyIndexOK(list, x) == x < Len(list) /\ x >= 0 - Len(list)
PyIndex(list, x) == IF x >= 0 THEN list[x + 1] ELSE list[Len(list) + x + 1]


(***************************************************************************)
(* textgrid_from_transcription                                             *)
(***************************************************************************)
NoLast == [tier |-> "none", branch |-> "none", k |-> 0, w |-> 0, t1 |-> 0,
           num |-> 0, set |-> FALSE]

TGIdle ==
    /\ transcription = [isdict |-> FALSE, keys |-> {}, text |-> "", segments |-> <<>>]
    /\ duration = 0 /\ req = [segment_level |-> FALSE, word_level |-> FALSE]
    /\ segment_level = FALSE /\ word_level = FALSE /\ tier_names = <<>>
    /\ tg = NoTextGrid /\ word_ntier = 0 /\ i = 0 /\ j = 0
    /\ same_boundary_seg = 0 /\ same_boundary_word = 0 /\ text = Unbound
    /\ interval_num = 0 /\ ii = 0 /\ jj = 0 /\ pc = "idle" /\ err = NoError
    /\ last = NoLast

TGInit ==
    /\ req \in [segment_level : BOOLEAN, word_level : BOOLEAN]
    /\ \E n \in 0..MaxSegments :
         \E f \in OrderedTimes(0, MaxTime, n) :
           \E sl \in SegmentsWithTimes(n, f, MaxWords, req.word_level) :
             transcription \in Transcriptions(sl)
    /\ duration \in Durations
    /\ segment_level = req.segment_level
    /\ word_level = req.word_level
    /\ tier_names = <<>>
    /\ tg = NoTextGrid
    /\ word_ntier = 0
    /\ i = 0 /\ j = 0
    /\ same_boundary_seg = 0 /\ same_boundary_word = 0
    /\ text = Unbound
    /\ interval_num = 0
    /\ ii = 0 /\ jj = 0
    /\ pc = "start"
    /\ err = NoError
    /\ last = NoLast

ValidationErrorDictOnly(tr) ==
    IF ~tr.isdict THEN "ValueError" ELSE NoError

\* lines 38-41
ValidationError(tr) ==
    IF ~tr.isdict THEN "ValueError"
    ELSE IF "text" \notin tr.keys THEN "ValueError"
    ELSE NoError

\* line 52: transcription["segments"][0]
FirstSegmentError(tr) ==
    IF "segments" \notin tr.keys THEN "KeyError"
    ELSE IF Len(tr.segments) = 0 THEN "IndexError"
    ELSE NoError

\* lines 38-83: validation, tier names, the TextGrid, the "text" tier, the
\* loop counters.  Whether parselmouth accepts an end time that is not after
\* the start time is left open: both outcomes are taken.
Setup ==
    /\ pc = "start"
    /\ \E accepted \in (IF duration > 0 THEN {TRUE} ELSE {TRUE, FALSE}) :
       LET verr == ValidationError(transcription)
           seg1 == segment_level /\ "segments" \in transcription.keys
           names1 == IF seg1 THEN <<"text", "segments">> ELSE <<"text">>
           werr == IF word_level THEN FirstSegmentError(transcription) ELSE NoError
           word1 == word_level /\ werr = NoError
                    /\ "words" \in transcription.segments[1].keys
           names2 == IF word1 THEN Append(names1, "words") ELSE names1
           tg0 == NewTextGrid(duration, names2)
           terr == IF "text" \in transcription.keys THEN NoError ELSE "KeyError"
           tg1 == [tg0 EXCEPT ![1] = SetIntervalText(tg0[1], 1, transcription.text)]
           Raise(e, sl, wl, names, grid) ==
               /\ err' = e /\ pc' = "raised"
               /\ segment_level' = sl /\ word_level' = wl
               /\ tier_names' = names /\ tg' = grid
               /\ UNCHANGED word_ntier
       IN  /\ IF verr # NoError
              THEN Raise(verr, segment_level, word_level, tier_names, tg)
              ELSE IF werr # NoError
              THEN Raise(werr, seg1, word_level, names1, tg)
              ELSE IF ~accepted
              THEN Raise("PraatError", seg1, word1, names2, tg)
              ELSE IF terr # NoError
              THEN Raise(terr, seg1, word1, names2, tg0)
              ELSE /\ err' = NoError
                   /\ segment_level' = seg1 /\ word_level' = word1
                   /\ tier_names' = names2 /\ tg' = tg1
                   /\ word_ntier' = (IF seg1 THEN 3 ELSE 2)
                   /\ pc' = IF (seg1 \/ word1) /\ Len(transcription.segments) > 0
                            THEN "seg" ELSE "return"
    /\ UNCHANGED <<transcription, duration, req, i, j, same_boundary_seg,
                   same_boundary_word, text, interval_num, ii, jj, last>>
    /\ UNCHANGED avars

\* the outcome of one pass through a tier's branch and its "Set interval text"
Failed(e, tier, label, num, run) ==
    [err |-> e, tier |-> tier, text |-> label, num |-> num, run |-> run,
     set |-> FALSE]

\* lines 119-125 / 161-167: evaluate `text` and set the interval's text
SetText(tier, label, num, run) ==
    IF label = Unbound THEN Failed("UnboundLocalError", tier, label, num, run)
    ELSE IF ~CanSetIntervalText(tier, num)
    THEN Failed("PraatError", tier, label, num, run)
    ELSE [err |-> NoError, tier |-> SetIntervalText(tier, num, label),
          text |-> label, num |-> num, run |-> run, set |-> TRUE]

\* lines 94, 98, 109 / 136, 140, 151: the branch taken for a span at index k
Branch(t0, t1, k) ==
    IF ~(t1 >= duration) /\ ~(t0 = t1) THEN "normal"
    ELSE IF t0 = t1 /\ k > 0 THEN "merge"
    ELSE IF t0 = t1 /\ k = 0 THEN "first"
    ELSE "clamp"

\* line 108 / 150: the statement `+segment["text"]`, unary plus of a str
UnaryPlusError(value) == "TypeError"

\* lines 89-125: the segment tier's part of one iteration
SegmentOutcome ==
    LET segment == transcription.segments[ii + 1]
        t0 == segment.start
        t1 == segment.end
        tier == tg[2]
        num0 == i + 1
        branch == Branch(t0, t1, ii)
    IN  CASE branch = "normal" ->
               IF CanInsertBoundary(tier, t1)
               THEN SetText(InsertBoundary(tier, t1), segment.text, num0, 0)
               ELSE Failed("PraatError", tier, text, num0, 0)
          [] branch = "merge" ->
               LET run == same_boundary_seg + 1
                   idx == PyRange(ii - run, ii)
               IN  IF \E x \in 1..Len(idx) : ~PyIndexOK(transcription.segments, idx[x])
                   THEN Failed("IndexError", tier, text, num0 - 1, run)
                   ELSE Failed(UnaryPlusError(segment.text), tier,
                               JoinSpace([x \in 1..Len(idx) |->
                                   PyIndex(transcription.segments, idx[x]).text]),
                               num0 - 1, run)
          [] branch = "first" ->
               IF CanInsertBoundary(tier, t1 + Eps)
               THEN SetText(InsertBoundary(tier, t1 + Eps), segment.text, num0,
                            same_boundary_seg)
               ELSE Failed("PraatError", tier, text, num0, same_boundary_seg)
          [] branch = "clamp" ->
               SetText(tier, text, num0, same_boundary_seg)

\* the position after segment k's iteration of the loop of line 86
AfterSegment(k) ==
    /\ ii' = k + 1
    /\ jj' = 0
    /\ pc' = IF k + 1 < Len(transcription.segments) THEN "seg" ELSE "return"

\* lines 86-130: segment ii's iteration up to the head of its word loop
SegStep ==
    /\ pc = "seg"
    /\ LET segment == transcription.segments[ii + 1]
           out == SegmentOutcome
           failed == segment_level /\ out.err # NoError
       IN  /\ IF segment_level
              THEN /\ tg' = [tg EXCEPT ![2] = out.tier]
                   /\ text' = out.text
                   /\ interval_num' = out.num
                   /\ same_boundary_seg' = out.run
                   /\ i' = IF failed THEN i ELSE i + 1
                   /\ last' = [tier |-> "segments",
                               branch |-> Branch(segment.start, segment.end, ii),
                               k |-> ii, w |-> 0, t1 |-> segment.end,
                               num |-> out.num, set |-> out.set]
              ELSE UNCHANGED <<tg, text, interval_num, same_boundary_seg, i, last>>
           /\ IF failed
              THEN err' = out.err /\ pc' = "raised" /\ UNCHANGED <<ii, jj>>
              ELSE IF word_level /\ "words" \notin segment.keys
              THEN err' = "KeyError" /\ pc' = "raised" /\ UNCHANGED <<ii, jj>>
              ELSE IF word_level /\ Len(segment.words) > 0
              THEN pc' = "word" /\ jj' = 0 /\ UNCHANGED <<ii, err>>
              ELSE AfterSegment(ii) /\ UNCHANGED err
    /\ UNCHANGED <<transcription, duration, req, segment_level, word_level,
                   tier_names, word_ntier, j, same_boundary_word>>
    /\ UNCHANGED avars


\* line 158: segment["word"]; a segment dict carries no such key
SegmentWordError(segment) ==
    IF "word" \in segment.keys THEN NoError ELSE "KeyError"

\* lines 131-167: one iteration of the word loop
WordOutcome ==
    LET segment == transcription.segments[ii + 1]
        word == segment.words[jj + 1]
        t0 == word.start
        t1 == word.end
        tier == tg[word_ntier]
        num0 == j + 1
        branch == Branch(t0, t1, jj)
    IN  CASE branch = "normal" ->
               IF CanInsertBoundary(tier, t1)
               THEN SetText(InsertBoundary(tier, t1), word.word, num0, 0)
               ELSE Failed("PraatError", tier, text, num0, 0)
          [] branch = "merge" ->
               LET run == same_boundary_word + 1
                   idx == PyRange(ii - run, jj)
               IN  IF \E x \in 1..Len(idx) : ~PyIndexOK(segment.words, idx[x])
                   THEN Failed("IndexError", tier, text, num0 - 1, run)
                   ELSE Failed(UnaryPlusError(segment.text), tier,
                               JoinSpace([x \in 1..Len(idx) |->
                                   PyIndex(segment.words, idx[x]).word]),
                               num0 - 1, run)
          [] branch = "first" ->
               IF ~CanInsertBoundary(tier, t1 + Eps)
               THEN Failed("PraatError", tier, text, num0, same_boundary_word)
               ELSE IF SegmentWordError(segment) # NoError
               THEN Failed(SegmentWordError(segment), InsertBoundary(tier, t1 + Eps),
                           text, num0, same_boundary_word)
               ELSE SetText(InsertBoundary(tier, t1 + Eps), segment.word, num0,
                            same_boundary_word)
          [] branch = "clamp" ->
               SetText(tier, text, num0, same_boundary_word)

\* lines 130-168: word jj of segment ii
WordStep ==
    /\ pc = "word"
    /\ LET segment == transcription.segments[ii + 1]
           word == segment.words[jj + 1]
           out == WordOutcome
       IN  /\ tg' = [tg EXCEPT ![word_ntier] = out.tier]
           /\ text' = out.text
           /\ interval_num' = out.num
           /\ same_boundary_word' = out.run
           /\ last' = [tier |-> "words", branch |-> Branch(word.start, word.end, jj),
                       k |-> ii, w |-> jj, t1 |-> word.end, num |-> out.num,
                       set |-> out.set]
           /\ IF out.err # NoError
              THEN /\ err' = out.err /\ pc' = "raised"
                   /\ UNCHANGED <<j, ii, jj>>
              ELSE /\ j' = j + 1
                   /\ UNCHANGED err
                   /\ IF jj + 1 < Len(segment.words)
                      THEN jj' = jj + 1 /\ UNCHANGED <<ii, pc>>
                      ELSE AfterSegment(ii)
    /\ UNCHANGED <<transcription, duration, req, segment_level, word_level,
                   tier_names, word_ntier, i, same_boundary_seg>>
    /\ UNCHANGED avars

\* line 170: return tg
Return ==
    /\ pc = "return"
    /\ pc' = "done"
    /\ UNCHANGED <<transcription, duration, req, segment_level, word_level,
                   tier_names, tg, word_ntier, i, j, same_boundary_seg,
                   same_boundary_word, text, interval_num, ii, jj, err, last>>
    /\ UNCHANGED avars

(***************************************************************************)
(* Specifications                                                          *)
(***************************************************************************)
Init == TGInit /\ AdjustIdle

Next ==
    \/ Setup
    \/ SegStep
    \/ WordStep
    \/ Return

Spec == Init /\ [][Next]_vars

InitAdjust == AdjustInit /\ TGIdle

NextAdjust ==
    \/ AdjustCall
    \/ AdjustPair
    \/ AdjustReturn
    \/ Reapply

SpecAdjust == InitAdjust /\ [][NextAdjust]_vars


(***************************************************************************)
(* Pause redistribution: properties (SpecAdjust)                           *)
(***************************************************************************)

\* the chunk list the function returned: pipeline_output["chunks"]
Returned == [r \in 1..Len(OutputList) |-> heap[OutputList[r]]]

\* the gap after chunk r in the chunk dicts h
Gap(h, r) == h[r + 1].timestamp[1] - h[r].timestamp[2]

FirstReturned == apc = "done" /\ pass = 1

\* the gap after chunk r as the code computes it: next_start - current_end
Pause(h, r) == FloatSub(h[r + 1].timestamp[1], h[r].timestamp[2])

\* the returned list has the input's length, order and labels, and the
\* first start and the last end of the input
SameChunks ==
    /\ Len(Returned) = Len(orig)
    /\ \A r \in 1..Len(orig) : Returned[r].text = orig[r].text
    /\ Len(orig) > 0 =>
         /\ Returned[1].timestamp[1] = orig[1].timestamp[1]
         /\ Returned[Len(orig)].timestamp[2] = orig[Len(orig)].timestamp[2]

\* C2 (as claimed): the returned list has the input's length, order and
\* labels; a pair with input gap g > 0 has the left end raised and the right
\* start lowered by exactly min(g, split_threshold)/2 each, which leaves a
\* gap of exactly 0 when g <= split_threshold and of g - split_threshold
\* otherwise; a pair with g <= 0 keeps both values; the first start and the
\* last end are kept.
C2_RedistributionExact ==
    FirstReturned =>
        /\ SameChunks
        /\ \A r \in 1..(Len(orig) - 1) :
             LET g == Gap(orig, r)
                 raised == Returned[r].timestamp[2] - orig[r].timestamp[2]
                 lowered == orig[r + 1].timestamp[1] - Returned[r + 1].timestamp[1]
             IN  IF g > 0
                 THEN /\ 2 * raised = Min(g, split_threshold)
                      /\ 2 * lowered = Min(g, split_threshold)
                      /\ Gap(Returned, r) =
                           (IF g <= split_threshold THEN 0 ELSE g - split_threshold)
                 ELSE raised = 0 /\ lowered = 0

\* C2 (amended): as claimed, with the arithmetic of floats: the gap g is the
\* rounded difference of the input values, the new left end and right start
\* are the rounded sum and difference with min(g, split_threshold)/2, and
\* the new gap is exactly 0 when g <= split_threshold and the difference g
\* was computed without rounding.
C2_RedistributionRounded ==
    FirstReturned =>
        /\ SameChunks
        /\ \A r \in 1..(Len(orig) - 1) :
             LET g == Pause(orig, r)
                 end0 == orig[r].timestamp[2]
                 start0 == orig[r + 1].timestamp[1]
             IN  IF g > 0
                 THEN /\ \E d \in 0..g :
                           /\ 2 * d = Min(g, split_threshold)
                           /\ Returned[r].timestamp[2] = Round(end0 + d)
                           /\ Returned[r + 1].timestamp[1] = Round(start0 - d)
                      /\ (g = Gap(orig, r) /\ g <= split_threshold)
                            => Gap(Returned, r) = 0
                 ELSE /\ Returned[r].timestamp[2] = end0
                      /\ Returned[r + 1].timestamp[1] = start0

\* three chunks returned, one input gap above the threshold and one positive
\* gap within it, so that one returned gap is open and the other closed
C2_Witness ==
    /\ FirstReturned
    /\ Len(orig) = 3
    /\ \E r \in 1..2 : Gap(orig, r) > split_threshold
    /\ \E r \in 1..2 : Gap(orig, r) > 0 /\ Gap(orig, r) <= split_threshold
    /\ Gap(Returned, 1) # Gap(Returned, 2)

\* C7 (as claimed): when the function has returned, the caller's chunk
\* dicts hold the timestamps and labels they held before the call, and the
\* caller's list holds the same chunks.
C7_InputNotMutated ==
    apc = "done" =>
        /\ chunks = RefList(Len(orig))
        /\ \A r \in 1..Len(orig) : heap[r] = orig[r]

\* C8 (as claimed): applying the function to its own result, with the same
\* threshold, returns the timestamps of the first application.
C8_Idempotent ==
    (apc = "done" /\ pass = 2) => heap = result1

\* C8 (amended): the second application returns the timestamps of the first
\* when no gap of the input is larger than split_threshold and every
\* positive gap was computed without rounding.
C8_IdempotentWithinThreshold ==
    (/\ apc = "done"
     /\ pass = 2
     /\ \A r \in 1..(Len(orig) - 1) :
           /\ Gap(orig, r) <= split_threshold
           /\ Gap(orig, r) > 0 => Pause(orig, r) = Gap(orig, r))
        => heap = result1

\* a second application has returned on an input whose positive gaps were
\* all closed by the first one
C8_Witness ==
    /\ apc = "done"
    /\ pass = 2
    /\ Len(orig) = 3
    /\ \A r \in 1..2 : /\ Gap(orig, r) > 0
                        /\ Gap(orig, r) <= split_threshold
                        /\ Pause(orig, r) = Gap(orig, r)
    /\ result1 # orig

\* every halving of the model is exact: the halved values are even
HalvingExact ==
    (apc = "loop" /\ ci < Len(adjusted_chunks) - 1) =>
        LET g == FloatSub(heap[adjusted_chunks[ci + 2]].timestamp[1],
                          heap[adjusted_chunks[ci + 1]].timestamp[2])
        IN  g > 0 => Min(g, split_threshold) % 2 = 0


(***************************************************************************)
(* TextGrid builder: properties (Spec)                                     *)
(***************************************************************************)

Validated == transcription.isdict /\ "text" \in transcription.keys

\* a tier partitions [0, duration]: contiguous, ordered, from 0 to duration
Covers(tier) ==
    /\ Len(tier) >= 1
    /\ tier[1].xmin = 0
    /\ tier[Len(tier)].xmax = duration
    /\ \A n \in 1..(Len(tier) - 1) : tier[n].xmax = tier[n + 1].xmin
    /\ \A n \in 1..Len(tier) :
         tier[n].xmin <= tier[n].xmax /\ (duration > 0 => tier[n].xmin < tier[n].xmax)

\* C1: from the creation of the TextGrid on, so after every boundary
\* insertion and at the return, each emitted tier (one per tier name) is a
\* contiguous, non-overlapping sequence of intervals from 0 to duration.
C1_Coverage ==
    tg # NoTextGrid =>
        /\ Len(tg) = Len(tier_names)
        /\ \A n \in 1..Len(tg) : Covers(tg[n])

\* the function returned a document whose segment tier and word tier both
\* took two boundaries
C1_Witness ==
    /\ pc = "done"
    /\ tier_names = <<"text", "segments", "words">>
    /\ Len(tg[2]) = 3
    /\ Len(tg[3]) = 3

\* C4: a transcription that is not a dict, or a dict without "text", makes
\* the function raise ValueError before any tier exists, whatever duration,
\* segment_level and word_level are; a dict with "text" never gets that error.
C4_ValidationFailure ==
    /\ (~Validated /\ pc # "start") =>
          /\ pc = "raised"
          /\ err = "ValueError"
          /\ tg = NoTextGrid
          /\ tier_names = <<>>
    /\ Validated => err # "ValueError"

\* a dict with segments but without "text" was refused with both levels asked
C4_Witness ==
    /\ pc = "raised"
    /\ err = "ValueError"
    /\ transcription.isdict
    /\ "segments" \in transcription.keys
    /\ req.segment_level /\ req.word_level
    /\ duration > 0

\* the transcription has no word list where line 52 looks for one
WordsAbsent ==
    \/ "segments" \notin transcription.keys
    \/ Len(transcription.segments) = 0
    \/ "words" \notin transcription.segments[1].keys

\* the tiers of a document that lacks exactly the tiers whose field is absent
ExpectedTiers ==
    <<"text">>
    \o (IF req.segment_level /\ "segments" \in transcription.keys
        THEN <<"segments">> ELSE <<>>)
    \o (IF req.word_level /\ ~WordsAbsent THEN <<"words">> ELSE <<>>)

\* C5 (as claimed): with "text" present, a level asked for whose field is
\* absent does not make the function fail: the set-up completes, the
\* TextGrid exists and it has exactly the tiers whose fields are present.
C5_DegradedFeatureRecovered ==
    (/\ Validated
     /\ duration > 0
     /\ pc # "start"
     /\ \/ (req.segment_level /\ "segments" \notin transcription.keys)
        \/ (req.word_level /\ WordsAbsent))
        => /\ tg # NoTextGrid
           /\ tier_names = ExpectedTiers

\* every segment the word loop will visit carries a "words" list
WordListsPresent ==
    word_level => \A s \in 1..Len(transcription.segments) :
                      "words" \in transcription.segments[s].keys

\* C6 (as claimed): once the TextGrid is built, ordered spans that include
\* zero-duration spans or spans reaching the duration never bring the
\* segment loop or the word loop to an error.
C6_DegenerateNeverRejected ==
    (tg # NoTextGrid /\ duration > 0 /\ WordListsPresent) => err = NoError

\* the spans of the tier the last iteration worked on, with their labels
LastSpans ==
    IF last.tier = "segments"
    THEN [x \in 1..Len(transcription.segments) |->
            [start |-> transcription.segments[x].start,
             end |-> transcription.segments[x].end,
             label |-> transcription.segments[x].text]]
    ELSE LET ws == transcription.segments[last.k + 1].words
         IN  [x \in 1..Len(ws) |->
                [start |-> ws[x].start, end |-> ws[x].end, label |-> ws[x].word]]

\* the position (from 1) in LastSpans of the span the last iteration handled
LastPos == IF last.tier = "segments" THEN last.k + 1 ELSE last.w + 1

LastTier == IF last.tier = "segments" THEN tg[2] ELSE tg[word_ntier]

\* the span that starts the run of zero-duration spans ending at position p
RunStart(spans, p) ==
    CHOOSE k \in 1..(p - 1) :
        /\ spans[k].start # spans[k].end
        /\ \A x \in (k + 1)..p : spans[x].start = spans[x].end

\* C3 (as claimed): when a zero-duration span that follows a normal span k
\* (through zero-duration spans only) has been processed, the tier holds the
\* interval ending at span k's end, no boundary was added for the run, and
\* that interval is labelled with the labels of the run joined by a space.
C3_DegenerateMerge ==
    (/\ last.branch = "merge"
     /\ \E k \in 1..(LastPos - 1) :
           /\ LastSpans[k].start # LastSpans[k].end
           /\ LastSpans[k].end < duration
           /\ \A x \in (k + 1)..LastPos : LastSpans[x].start = LastSpans[x].end)
        => LET k == RunStart(LastSpans, LastPos)
           IN  /\ err = NoError
               /\ \E n \in 1..Len(LastTier) :
                     /\ LastTier[n].xmax = LastSpans[k].end
                     /\ LastTier[n].text =
                          JoinSpace([x \in 1..(LastPos - k + 1) |->
                                        LastSpans[k + x - 1].label])

\* C9 (as claimed): when a span with start # end and end >= duration has
\* been processed without an exception, the tier's last interval ends at
\* duration and carries that span's own label.
C9_ClampLabel ==
    (last.branch = "clamp" /\ err = NoError /\ duration > 0)
        => /\ LastTier[Len(LastTier)].xmax = duration
           /\ LastTier[Len(LastTier)].text = LastSpans[LastPos].label

\* C10 (as claimed): the interval that received the label of a normal span
\* is the one whose right boundary is the span's end, in the segment tier
\* and tier-wide in the word tier; each segment's word loop starts with the
\* merge-run counter at 0.
C10_LabelAtInsertedBoundary ==
    /\ (last.branch = "normal" /\ last.set) => LastTier[last.num].xmax = last.t1
    /\ (pc = "word" /\ jj = 0) => same_boundary_word = 0

====
